---------------------------- MODULE Spec2Model ----------------------------
(***************************************************************************)
(* Model of the endpoint-notation parser (src/src/lib.rs).                 *)
(*                                                                         *)
(* A text is a sequence of one-character strings.  A syntax node (pest's   *)
(* Pair) is a record [rule, text, children].  Every converter              *)
(* (TryFrom<Pair> for T) is an operator from a node to an outcome:         *)
(*   [tag |-> "Ok",    val |-> v]    the converter returned Ok(v)          *)
(*   [tag |-> "Err",   err |-> e]    the converter returned Err(e)         *)
(*   [tag |-> "Panic", msg |-> m]    the converter panicked                *)
(* The grammar file (grammar.pest) is not part of the sources; the Rule    *)
(* Tree Producer is modelled from the specification and from the shapes    *)
(* the converters and the tests of lib.rs rely on.                         *)
(***************************************************************************)
EXTENDS Naturals, Sequences, FiniteSets

VARIABLES
    pc,      \* "idle": no call made; "done": a call has returned
    op,      \* the operation called: "parse_endpoint", or a converter's target type
    shape,   \* how the input text was written (its parts), for a text built from parts
    input,   \* the text handed to parse_endpoint
    tree,    \* the syntax node handed to the converter
    result   \* the outcome of the call

vars == <<pc, op, shape, input, tree, result>>

(***************************************************************************)
(* Bounds of the explored inputs.                                          *)
(***************************************************************************)
MaxPath == 2

MaxQuery == 2

MaxTail == 2

(***************************************************************************)
(* Characters and letter case.                                             *)
(***************************************************************************)
LowerAlpha == <<"a","b","c","d","e","f","g","h","i","j","k","l","m",
                "n","o","p","q","r","s","t","u","v","w","x","y","z">>

UpperAlpha == <<"A","B","C","D","E","F","G","H","I","J","K","L","M",
                "N","O","P","Q","R","S","T","U","V","W","X","Y","Z">>

\* Characters outside ASCII, named by their code points:
\* U+017F LATIN SMALL LETTER LONG S (its uppercase form is S),
\* U+0130 LATIN CAPITAL LETTER I WITH DOT ABOVE (its lowercase form is i
\* followed by U+0307, the combining dot).
LongS == "U+017F"

DottedCapI == "U+0130"

CombiningDot == "U+0307"

IsLower(c) == \E i \in 1..26 : LowerAlpha[i] = c

IsUpper(c) == \E i \in 1..26 : UpperAlpha[i] = c

AlphaIndex(c) == CHOOSE i \in 1..26 : LowerAlpha[i] = c \/ UpperAlpha[i] = c

\* char::to_lowercase: a sequence of characters.
char_to_lowercase(c) ==
    IF IsUpper(c) THEN <<LowerAlpha[AlphaIndex(c)]>>
    ELSE IF c = DottedCapI THEN <<"i", CombiningDot>>
    ELSE <<c>>

\* char::to_uppercase: a sequence of characters.
char_to_uppercase(c) ==
    IF IsLower(c) THEN <<UpperAlpha[AlphaIndex(c)]>>
    ELSE IF c = LongS THEN <<"S">>
    ELSE <<c>>

RECURSIVE to_lowercase(_)
to_lowercase(s) ==
    IF s = <<>> THEN <<>>
    ELSE char_to_lowercase(Head(s)) \o to_lowercase(Tail(s))

RECURSIVE to_uppercase(_)
to_uppercase(s) ==
    IF s = <<>> THEN <<>>
    ELSE char_to_uppercase(Head(s)) \o to_uppercase(Tail(s))

\* ASCII-only folding, as in pest's case-insensitive literal ^"...".
AsciiLower(c) == IF IsUpper(c) THEN LowerAlpha[AlphaIndex(c)] ELSE c

(***************************************************************************)
(* The words the converters compare with.                                  *)
(***************************************************************************)
w_string == <<"s","t","r","i","n","g">>

w_short == <<"s","h","o","r","t">>

w_int == <<"i","n","t">>

w_long == <<"l","o","n","g">>

w_float == <<"f","l","o","a","t">>

w_double == <<"d","o","u","b","l","e">>

w_bool == <<"b","o","o","l">>

W_GET == <<"G","E","T">>

W_POST == <<"P","O","S","T">>

W_PUT == <<"P","U","T">>

W_DELETE == <<"D","E","L","E","T","E">>

(***************************************************************************)
(* Outcomes, options and model values.                                     *)
(***************************************************************************)
Ok(v) == [tag |-> "Ok", val |-> v]

Err(e) == [tag |-> "Err", err |-> e]

Panic(m) == [tag |-> "Panic", msg |-> m]

UnexpectRule == "UnexpectRule"

UnsupportType == "UnsupportType"

PestError == "PestError"

\* Option<T>: the empty sequence is None, a one-element sequence is Some.
None == <<>>

Some(x) == <<x>>

\* struct Variable(String, VariableType)
Variable(name, type) == [name |-> name, type |-> type]

\* enum Path { Segment(String), Variable(String, VariableType) }
PathSegment(s) == [variant |-> "Segment", name |-> s, type |-> "-"]

PathVariable(name, type) == [variant |-> "Variable", name |-> name, type |-> type]

\* struct Endpoint
Endpoint(method, path, query_params, request_type, response_type) ==
    [method |-> method, path |-> path, query_params |-> query_params,
     request_type |-> request_type, response_type |-> response_type]

\* A syntax node: pest's Pair with as_rule(), as_str() and into_inner().
Node(rule, text, children) == [rule |-> rule, text |-> text, children |-> children]

NoNode == Node("-", <<>>, <<>>)

(***************************************************************************)
(* The converters.                                                         *)
(***************************************************************************)
\* A faulty variant: the token is matched without lowercasing it.
VariableType_try_from_CaseSensitive(value) ==
    IF value.rule = "variable_type" THEN
        LET s == value.text IN
        CASE s = w_string -> Ok("String")
          [] s = w_short -> Ok("Short")
          [] s = w_int -> Ok("Int")
          [] s = w_long -> Ok("Long")
          [] s = w_float -> Ok("Float")
          [] s = w_double -> Ok("Double")
          [] s = w_bool -> Ok("Bool")
          [] OTHER -> Err(UnsupportType)
    ELSE Err(UnexpectRule)

VariableType_try_from(value) ==
    IF value.rule = "variable_type" THEN
        LET s == to_lowercase(value.text) IN
        CASE s = w_string -> Ok("String")
          [] s = w_short -> Ok("Short")
          [] s = w_int -> Ok("Int")
          [] s = w_long -> Ok("Long")
          [] s = w_float -> Ok("Float")
          [] s = w_double -> Ok("Double")
          [] s = w_bool -> Ok("Bool")
          [] OTHER -> Err(UnsupportType)
    ELSE Err(UnexpectRule)

\* A faulty variant: the name is lowercased like the type token.
Variable_try_from_LowercasedName(value) ==
    IF value.rule = "variable" THEN
        LET pairs == value.children IN
        IF Len(pairs) < 2 THEN Panic("unwrap")
        ELSE LET name == pairs[1]
                 variable_type == VariableType_try_from(pairs[2])
             IN  IF variable_type.tag = "Ok"
                 THEN Ok(Variable(to_lowercase(name.text), variable_type.val))
                 ELSE variable_type
    ELSE Err(UnexpectRule)

Variable_try_from(value) ==
    IF value.rule = "variable" THEN
        LET pairs == value.children IN
        IF Len(pairs) < 2 THEN Panic("unwrap")
        ELSE LET name == pairs[1]
                 variable_type == VariableType_try_from(pairs[2])
             IN  IF variable_type.tag = "Ok"
                 THEN Ok(Variable(name.text, variable_type.val))
                 ELSE variable_type
    ELSE Err(UnexpectRule)

\* A faulty variant: the literal is matched without uppercasing it.
Method_try_from_CaseSensitive(value) ==
    IF value.rule = "method" THEN
        IF value.children = <<>> THEN Panic("Impossible")
        ELSE LET s == value.children[1].text IN
             CASE s = W_GET -> Ok("GET")
               [] s = W_POST -> Ok("POST")
               [] s = W_PUT -> Ok("PUT")
               [] s = W_DELETE -> Ok("DELETE")
               [] OTHER -> Panic("Impossible")
    ELSE Err(UnexpectRule)

Method_try_from(value) ==
    IF value.rule = "method" THEN
        IF value.children = <<>> THEN Panic("Impossible")
        ELSE LET s == to_uppercase(value.children[1].text) IN
             CASE s = W_GET -> Ok("GET")
               [] s = W_POST -> Ok("POST")
               [] s = W_PUT -> Ok("PUT")
               [] s = W_DELETE -> Ok("DELETE")
               [] OTHER -> Panic("Impossible")
    ELSE Err(UnexpectRule)

\* A faulty variant: a variable node falls into the segment branch.
Path_try_from_AllSegments(value) ==
    IF value.rule = "segment" \/ value.rule = "variable" THEN
        IF value.children = <<>> THEN Panic("unwrap")
        ELSE Ok(PathSegment(value.children[1].text))
    ELSE Err(UnexpectRule)

Path_try_from(value) ==
    IF value.rule = "segment" THEN
        IF value.children = <<>> THEN Panic("unwrap")
        ELSE Ok(PathSegment(value.children[1].text))
    ELSE IF value.rule = "variable" THEN
        LET v == Variable_try_from(value) IN
        IF v.tag = "Ok" THEN Ok(PathVariable(v.val.name, v.val.type)) ELSE v
    ELSE Err(UnexpectRule)

\* A faulty variant: the rule tag is not looked at.
impl_string_type_NoGuard(rule, value) == Ok(value.text)

\* macro impl_string_type!($type, $rule, $r)
impl_string_type(rule, value) ==
    IF rule = value.rule THEN Ok(value.text) ELSE Err(UnexpectRule)

ResponseType_try_from(value) == impl_string_type("response_type", value)

RequestType_try_from(value) == impl_string_type("request_type", value)

\* Iterator::collect::<Result<Vec<_>, _>>() over the mapped children: the
\* first outcome that is not Ok ends the iteration.
collect(rs) ==
    IF \E i \in 1..Len(rs) : rs[i].tag # "Ok"
    THEN rs[CHOOSE i \in 1..Len(rs) :
               /\ rs[i].tag # "Ok"
               /\ \A j \in 1..(i-1) : rs[j].tag = "Ok"]
    ELSE Ok([i \in 1..Len(rs) |-> rs[i].val])

\* Result::unwrap
unwrap(r) == IF r.tag = "Err" THEN Panic("unwrap") ELSE r

\* A faulty variant: the clause is taken whole or not at all.
TypeClause_AllOrNothing(inner) ==
    LET rq == IF Len(inner) >= 1 THEN RequestType_try_from(inner[1]) ELSE Err("-")
        rs == IF Len(inner) >= 2 THEN ResponseType_try_from(inner[2]) ELSE Err("-")
    IN  IF rq.tag = "Ok" /\ rs.tag = "Ok"
        THEN [request_type |-> Some(rq.val), response_type |-> Some(rs.val)]
        ELSE [request_type |-> None, response_type |-> None]

\* The trailing clause of Endpoint::try_from (lines 55-62): inner is the
\* iterator's remaining children after the query-params group.
TypeClause(inner) ==
    LET pair0 == IF Len(inner) >= 1 THEN Some(inner[1]) ELSE None
        rq == IF pair0 # None THEN RequestType_try_from(pair0[1]) ELSE Err("-")
        taken == pair0 # None /\ rq.tag = "Ok"
        pair == IF taken
                THEN (IF Len(inner) >= 2 THEN Some(inner[2]) ELSE None)
                ELSE pair0
        req_type == IF taken THEN Some(rq.val) ELSE None
        rs == IF pair # None THEN ResponseType_try_from(pair[1]) ELSE Err("-")
        res_type == IF pair # None /\ rs.tag = "Ok" THEN Some(rs.val) ELSE None
    IN  [request_type |-> req_type, response_type |-> res_type]

\* A faulty variant: the query-params group is peeked at, not consumed, so
\* the trailing clause is looked for from the group itself.
Endpoint_try_from_PeeksQueryGroup(value) ==
    IF value.rule = "endpoint" THEN
        LET inner == value.children IN
        IF Len(inner) < 1 THEN Panic("unwrap")
        ELSE LET method == Method_try_from(inner[1]) IN
        IF method.tag # "Ok" THEN method
        ELSE IF Len(inner) < 2 THEN Panic("unwrap")
        ELSE LET pc2 == inner[2].children
                 path == unwrap(collect([i \in 1..Len(pc2) |-> Path_try_from(pc2[i])]))
             IN
        IF path.tag # "Ok" THEN path
        ELSE IF Len(inner) < 3 THEN Panic("unwrap")
        ELSE LET qc == inner[3].children
                 query_params ==
                     unwrap(collect([i \in 1..Len(qc) |-> Variable_try_from(qc[i])]))
             IN
        IF query_params.tag # "Ok" THEN query_params
        ELSE LET clause == TypeClause(SubSeq(inner, 3, Len(inner))) IN
             Ok(Endpoint(method.val, path.val, query_params.val,
                         clause.request_type, clause.response_type))
    ELSE Err(UnexpectRule)

Endpoint_try_from(value) ==
    IF value.rule = "endpoint" THEN
        LET inner == value.children IN
        IF Len(inner) < 1 THEN Panic("unwrap")
        ELSE LET method == Method_try_from(inner[1]) IN
        IF method.tag # "Ok" THEN method
        ELSE IF Len(inner) < 2 THEN Panic("unwrap")
        ELSE LET pc2 == inner[2].children
                 path == unwrap(collect([i \in 1..Len(pc2) |-> Path_try_from(pc2[i])]))
             IN
        IF path.tag # "Ok" THEN path
        ELSE IF Len(inner) < 3 THEN Panic("unwrap")
        ELSE LET qc == inner[3].children
                 query_params ==
                     unwrap(collect([i \in 1..Len(qc) |-> Variable_try_from(qc[i])]))
             IN
        IF query_params.tag # "Ok" THEN query_params
        ELSE LET clause == TypeClause(SubSeq(inner, 4, Len(inner))) IN
             Ok(Endpoint(method.val, path.val, query_params.val,
                         clause.request_type, clause.response_type))
    ELSE Err(UnexpectRule)

(***************************************************************************)
(* The Rule Tree Producer: EndpointParser::parse, derived from             *)
(* grammar.pest.  A PEG over the text; every rule returns                  *)
(* [ok, pos, node], pos being the position after the match.                *)
(*   endpoint     = method " " path query_params                           *)
(*                  (request_type "->" response_type)? EOI                 *)
(*   method       = (^"get" | ^"post" | ^"put" | ^"delete")                *)
(*   path         = ("/" (segment | "{" variable "}"))+                    *)
(*   segment      = identifier                                             *)
(*   variable     = identifier ":" variable_type                           *)
(*   query_params = ("?" variable {"&" variable})?   ({..}: repetition)    *)
(*   variable_type, request_type, response_type = identifier-like tokens   *)
(* Spaces may surround the type clause and its arrow.                      *)
(***************************************************************************)
Delimiters == {"/", "{", "}", "?", "&", ":", " ", "-", ">"}

IsIdentChar(c) == c \notin Delimiters

\* The character at position i, "" at the end of the input.
At(s, i) == IF i >= 1 /\ i <= Len(s) THEN s[i] ELSE ""

NoMatch == [ok |-> FALSE, pos |-> 0, node |-> NoNode]

Match(p, n) == [ok |-> TRUE, pos |-> p, node |-> n]

\* The element of a one-element set.  An intermediate result r of a rule is
\* bound once, as in Only({ F(r) : r \in {rule(s, i)} }).
Only(S) == CHOOSE x \in S : TRUE

RECURSIVE IdentEnd(_, _)
IdentEnd(s, i) ==
    IF i <= Len(s) /\ IsIdentChar(s[i]) THEN IdentEnd(s, i + 1) ELSE i

RECURSIVE SkipSpaces(_, _)
SkipSpaces(s, i) == IF At(s, i) = " " THEN SkipSpaces(s, i + 1) ELSE i

identifier(rule, s, i) ==
    Only({ IF e > i THEN Match(e, Node(rule, SubSeq(s, i, e - 1), <<>>)) ELSE NoMatch :
             e \in {IdentEnd(s, i)} })

MethodLiterals == <<W_GET, W_POST, W_PUT, W_DELETE>>

\* pest's ^"literal": the comparison ignores ASCII case only.
MatchInsensitive(s, i, lit) ==
    /\ i + Len(lit) - 1 <= Len(s)
    /\ \A k \in 1..Len(lit) : AsciiLower(s[i + k - 1]) = AsciiLower(lit[k])

\* The first literal of the ordered choice that matches at i (0: none).
FirstLiteral(s, i) ==
    IF \E k \in 1..Len(MethodLiterals) : MatchInsensitive(s, i, MethodLiterals[k])
    THEN CHOOSE k \in 1..Len(MethodLiterals) :
             /\ MatchInsensitive(s, i, MethodLiterals[k])
             /\ \A j \in 1..(k-1) : ~MatchInsensitive(s, i, MethodLiterals[j])
    ELSE 0

method_rule(s, i) ==
    Only({ IF k = 0 THEN NoMatch
           ELSE Match(i + Len(MethodLiterals[k]),
                      Node("method", SubSeq(s, i, i + Len(MethodLiterals[k]) - 1),
                           <<Node("verb", SubSeq(s, i, i + Len(MethodLiterals[k]) - 1),
                                  <<>>)>>)) :
             k \in {FirstLiteral(s, i)} })

variable_type_after(s, i, n) ==
    Only({ IF ~t.ok THEN NoMatch
           ELSE Match(t.pos, Node("variable", SubSeq(s, i, t.pos - 1), <<n.node, t.node>>)) :
             t \in {identifier("variable_type", s, n.pos + 1)} })

variable_rule(s, i) ==
    Only({ IF ~n.ok \/ At(s, n.pos) # ":" THEN NoMatch ELSE variable_type_after(s, i, n) :
             n \in {identifier("identifier", s, i)} })

segment_rule(s, i) ==
    Only({ IF n.ok THEN Match(n.pos, Node("segment", n.node.text, <<n.node>>)) ELSE NoMatch :
             n \in {identifier("identifier", s, i)} })

braced_variable(s, i) ==
    IF At(s, i) # "{" THEN NoMatch
    ELSE Only({ IF v.ok /\ At(s, v.pos) = "}" THEN Match(v.pos + 1, v.node) ELSE NoMatch :
                  v \in {variable_rule(s, i + 1)} })

\* "/" (segment | "{" variable "}")
path_item(s, i) ==
    IF At(s, i) # "/" THEN NoMatch
    ELSE Only({ IF g.ok THEN g ELSE braced_variable(s, i + 1) :
                  g \in {segment_rule(s, i + 1)} })

Items(p, ns) == [pos |-> p, nodes |-> ns]

RECURSIVE path_items(_, _)
path_items(s, i) ==
    Only({ IF ~it.ok THEN Items(i, <<>>)
           ELSE Only({ Items(rest.pos, <<it.node>> \o rest.nodes) :
                         rest \in {path_items(s, it.pos)} }) :
             it \in {path_item(s, i)} })

path_rule(s, i) ==
    Only({ IF items.nodes = <<>> THEN NoMatch
           ELSE Match(items.pos, Node("path", SubSeq(s, i, items.pos - 1), items.nodes)) :
             items \in {path_items(s, i)} })

RECURSIVE amp_variables(_, _)
amp_variables(s, i) ==
    Only({ IF ~v.ok THEN Items(i, <<>>)
           ELSE Only({ Items(rest.pos, <<v.node>> \o rest.nodes) :
                         rest \in {amp_variables(s, v.pos)} }) :
             v \in {IF At(s, i) = "&" THEN variable_rule(s, i + 1) ELSE NoMatch} })

\* The group node is produced whether or not the "?" clause is there.
query_params_rule(s, i) ==
    Only({ IF ~v.ok THEN Match(i, Node("query_params", <<>>, <<>>))
           ELSE Only({ Match(rest.pos, Node("query_params", SubSeq(s, i, rest.pos - 1),
                                            <<v.node>> \o rest.nodes)) :
                         rest \in {amp_variables(s, v.pos)} }) :
             v \in {IF At(s, i) = "?" THEN variable_rule(s, i + 1) ELSE NoMatch} })

response_after_arrow(s, i, rq, k) ==
    IF ~(At(s, k) = "-" /\ At(s, k + 1) = ">") THEN Items(i, <<>>)
    ELSE Only({ IF rs.ok THEN Items(rs.pos, <<rq.node, rs.node>>) ELSE Items(i, <<>>) :
                  rs \in {identifier("response_type", s, SkipSpaces(s, k + 2))} })

\* (request_type "->" response_type)?
type_clause(s, i) ==
    Only({ IF ~rq.ok THEN Items(i, <<>>)
           ELSE Only({ response_after_arrow(s, i, rq, k) : k \in {SkipSpaces(s, rq.pos)} }) :
             rq \in {identifier("request_type", s, SkipSpaces(s, i))} })

endpoint_tail(s, m, p) ==
    Only({ Only({ IF SkipSpaces(s, c.pos) # Len(s) + 1 THEN NoMatch
                  ELSE Match(Len(s) + 1,
                             Node("endpoint", s, <<m.node, p.node, q.node>> \o c.nodes)) :
                    c \in {type_clause(s, q.pos)} }) :
             q \in {query_params_rule(s, p.pos)} })

endpoint_rule(s) ==
    Only({ IF ~m.ok \/ At(s, m.pos) # " " THEN NoMatch
           ELSE Only({ IF ~p.ok THEN NoMatch ELSE endpoint_tail(s, m, p) :
                         p \in {path_rule(s, SkipSpaces(s, m.pos))} }) :
             m \in {method_rule(s, 1)} })

\* EndpointParser::parse(rule, input), first pair of the result.
EndpointParser_parse(rule, s) ==
    CASE rule = "endpoint" -> endpoint_rule(s)
      [] rule = "method" -> method_rule(s, 1)
      [] rule = "path" -> path_rule(s, 1)
      [] rule = "variable" -> variable_rule(s, 1)
      [] rule = "query_params" -> query_params_rule(s, 1)
      [] rule = "request_type" -> identifier("request_type", s, 1)
      [] rule = "response_type" -> identifier("response_type", s, 1)
      [] OTHER -> NoMatch

\* What parse_endpoint does with the outcome of EndpointParser::parse.
parse_endpoint_of(parsed) ==
    IF ~parsed.ok THEN Err(PestError)
    ELSE IF parsed.node.rule = "endpoint" THEN Endpoint_try_from(parsed.node)
    ELSE Panic("unreachable")

parse_endpoint(in) ==
    Only({ parse_endpoint_of(parsed) : parsed \in {EndpointParser_parse("endpoint", in)} })

\* value.try_into() for each target type.
try_into(target, value) ==
    CASE target = "Endpoint" -> Endpoint_try_from(value)
      [] target = "Method" -> Method_try_from(value)
      [] target = "VariableType" -> VariableType_try_from(value)
      [] target = "Variable" -> Variable_try_from(value)
      [] target = "Path" -> Path_try_from(value)
      [] target = "RequestType" -> RequestType_try_from(value)
      [] target = "ResponseType" -> ResponseType_try_from(value)

Targets == {"Endpoint", "Method", "VariableType", "Variable", "Path",
            "RequestType", "ResponseType"}

(***************************************************************************)
(* The inputs explored: texts written from parts, malformed texts, and     *)
(* syntax nodes handed to a converter directly (as the unit tests do).     *)
(***************************************************************************)
w_x == <<"x">>

w_register == <<"r","e","g","i","s","t","e","r">>

w_id == <<"i","d">>

w_n == <<"n">>

w_type == <<"t","y","p","e">>

w_order == <<"o","r","d","e","r">>

w_RQ == <<"R","Q">>

w_RS == <<"R","S">>

w_integer == <<"i","n","t","e","g","e","r">>

w_str == <<"s","t","r">>

w_PATCH == <<"P","A","T","C","H">>

w_GETS == <<"G","E","T","S">>

w_GE == <<"G","E">>

\* POST written with U+017F for its S: to_uppercase gives "POST".
w_PO_longs_T == <<"P","O",LongS,"T">>

\* int written with U+0130 for its i.
w_dotted_int == <<DottedCapI,"n","t">>

\* Every way of writing the word w (given in lower case) in mixed case.
CaseVariants(w) ==
    { [i \in 1..Len(w) |-> IF i \in m THEN UpperAlpha[AlphaIndex(w[i])] ELSE w[i]] :
        m \in SUBSET (1..Len(w)) }

TypeWords == {w_string, w_short, w_int, w_long, w_float, w_double, w_bool}

MethodWords == { [i \in 1..Len(w) |-> AsciiLower(w[i])] :
                    w \in {W_GET, W_POST, W_PUT, W_DELETE} }

OtherTypeTokens == {w_integer, w_str, w_dotted_int, w_x, w_RQ}

OtherMethodTokens == {w_PATCH, w_GETS, w_GE, w_PO_longs_T}

TypeTokens == UNION { CaseVariants(w) : w \in TypeWords } \cup OtherTypeTokens

MethodTokens == UNION { CaseVariants(w) : w \in MethodWords } \cup OtherMethodTokens

Seg(name) == [kind |-> "seg", name |-> name, type |-> <<>>]

Var(name, type) == [kind |-> "var", name |-> name, type |-> type]

PathComps == {Seg(w_x), Seg(w_register), Var(w_id, w_string),
              Var(w_n, <<"I","n","t">>), Var(w_n, w_integer)}

QueryVars == {Var(w_type, w_string), Var(w_order, <<"L","O","N","G">>),
              Var(w_n, w_str)}

SeqsOf(S, lo, hi) == UNION { [1..k -> S] : k \in lo..hi }

Shape(m, p, hasq, q, c, sp) ==
    [method |-> m, path |-> p, hasQuery |-> hasq, query |-> q, clause |-> c,
     spacing |-> sp, wellformed |-> TRUE]

NoShape ==
    [method |-> <<>>, path |-> <<>>, hasQuery |-> FALSE, query |-> <<>>,
     clause |-> <<>>, spacing |-> "-", wellformed |-> FALSE]

Shapes ==
    { Shape(m, <<Seg(w_x)>>, FALSE, <<>>, c, "loose") :
        m \in MethodTokens, c \in {<<>>, <<w_RQ, w_RS>>} }
    \cup
    { Shape(W_GET, p, Len(q) > 0, q, c, sp) :
        p \in SeqsOf(PathComps, 1, MaxPath), q \in SeqsOf(QueryVars, 0, MaxQuery),
        c \in {<<>>, <<w_RQ, w_RS>>}, sp \in {"tight", "loose"} }

RenderVar(v) == v.name \o <<":">> \o v.type

RenderComp(c) ==
    <<"/">> \o (IF c.kind = "seg" THEN c.name ELSE <<"{">> \o RenderVar(c) \o <<"}">>)

RECURSIVE RenderPath(_)
RenderPath(cs) ==
    IF cs = <<>> THEN <<>> ELSE RenderComp(Head(cs)) \o RenderPath(Tail(cs))

RECURSIVE RenderQuery(_, _)
RenderQuery(vs, sep) ==
    IF vs = <<>> THEN <<>>
    ELSE <<sep>> \o RenderVar(Head(vs)) \o RenderQuery(Tail(vs), "&")

RenderClause(c, sp) ==
    IF c = <<>> THEN (IF sp = "loose" THEN <<" ">> ELSE <<>>)
    ELSE IF sp = "loose" THEN <<" ">> \o c[1] \o <<" ", "-", ">", " ">> \o c[2]
    ELSE <<" ">> \o c[1] \o <<"-", ">">> \o c[2]

Render(sh) ==
    sh.method \o <<" ">> \o RenderPath(sh.path) \o RenderQuery(sh.query, "?")
        \o RenderClause(sh.clause, sh.spacing)

\* Texts the grammar does not accept.
MalformedTexts ==
    { <<"G","E","T"," ">>,
      <<"G","E","T","/","x">>,
      <<"G","E","T"," ","/","x","/","{","n","}">>,
      <<"G","E","T"," ","/","x","/","{","n",":","i","n","t">>,
      <<"G","E","T"," ","/","x","/","{","n",":","}">>,
      <<"G","E","T"," ","/","x","?">>,
      <<"G","E","T"," ","/","x","?","a",":","i","n","t","&">>,
      <<"G","E","T"," ","/","x"," ","R","Q"," ","-",">">>,
      <<"G","E","T"," ","/","x"," ","R","Q"," ","R","S">>,
      <<"G","E","T"," ","/","x"," ","-",">"," ","R","S">> }

Leaf(rule, text) == Node(rule, text, <<>>)

VariableNode(name, typeNode) ==
    Node("variable", name \o <<":">> \o typeNode.text, <<Leaf("identifier", name), typeNode>>)

VariableTypeNodes == { Leaf("variable_type", t) : t \in TypeTokens }

MethodNodes ==
    { Node("method", t, <<Leaf("verb", t)>>) : t \in MethodTokens }
    \cup {Node("method", W_GET, <<>>)}

VariableNodes ==
    { VariableNode(n, Leaf(r, t)) :
        n \in {w_id, <<"N","a","m","e">>},
        r \in {"variable_type", "identifier"},
        t \in TypeWords \cup {<<"B","o","o","L">>, w_integer} }
    \cup {Node("variable", w_id, <<>>), Node("variable", w_id, <<Leaf("identifier", w_id)>>)}

SegmentNodes ==
    { Node("segment", t, <<Leaf("identifier", t)>>) : t \in {w_x, w_register, w_int} }
    \cup {Node("segment", w_x, <<>>)}

StringTypeNodes ==
    { Leaf(r, t) : r \in {"request_type", "response_type"}, t \in {w_RQ, w_RS, w_int} }

TailNodes ==
    {Leaf("request_type", w_RQ), Leaf("response_type", w_RS),
     VariableNode(w_id, Leaf("variable_type", w_int)), Leaf("identifier", w_x)}

PathGroups ==
    { Node("path", <<>>, cs) :
        cs \in { <<Node("segment", w_x, <<Leaf("identifier", w_x)>>)>>,
                 <<Node("segment", w_x, <<Leaf("identifier", w_x)>>),
                   VariableNode(w_n, Leaf("variable_type", <<"I","N","T">>)),
                   Node("segment", w_register, <<Leaf("identifier", w_register)>>)>>,
                 <<VariableNode(w_n, Leaf("variable_type", w_integer))>>,
                 <<Leaf("request_type", w_RQ)>> } }

QueryGroups ==
    { Node("query_params", <<>>, cs) :
        cs \in { <<>>,
                 <<VariableNode(w_type, Leaf("variable_type", w_string)),
                   VariableNode(w_order, Leaf("variable_type", w_bool))>>,
                 <<VariableNode(w_type, Leaf("variable_type", w_string)),
                   VariableNode(w_order, Leaf("variable_type", w_str)),
                   VariableNode(w_n, Leaf("identifier", w_int))>> } }

EndpointNodes ==
    { Node("endpoint", <<>>, <<Node("method", W_GET, <<Leaf("verb", W_GET)>>), p, q>> \o t) :
        p \in PathGroups, q \in QueryGroups, t \in SeqsOf(TailNodes, 0, MaxTail) }
    \cup
    { Node("endpoint", <<>>, cs) :
        cs \in { <<>>,
                 <<Node("method", W_PUT, <<Leaf("verb", W_PUT)>>)>>,
                 <<Node("method", W_PUT, <<Leaf("verb", W_PUT)>>),
                   Node("path", <<>>, <<>>)>>,
                 <<Leaf("identifier", w_x)>>,
                 <<Node("method", w_PATCH, <<Leaf("verb", w_PATCH)>>)>> } }

Nodes ==
    VariableTypeNodes \cup MethodNodes \cup VariableNodes \cup SegmentNodes
        \cup StringTypeNodes \cup EndpointNodes \cup {Leaf("identifier", w_string)}

(***************************************************************************)
(* The state machine: one call at a time, each from the idle state.        *)
(***************************************************************************)
NoResult == [tag |-> "-"]

Init ==
    /\ pc = "idle"
    /\ op = "-"
    /\ shape = NoShape
    /\ input = <<>>
    /\ tree = NoNode
    /\ result = NoResult

\* EndpointParser::parse_endpoint(input)
Call(sh, text) ==
    /\ pc' = "done"
    /\ op' = "parse_endpoint"
    /\ shape' = sh
    /\ input' = text
    /\ \E parsed \in {EndpointParser_parse("endpoint", text)} :
           /\ tree' = IF parsed.ok THEN parsed.node ELSE NoNode
           /\ result' = parse_endpoint_of(parsed)

ParseEndpoint ==
    /\ pc = "idle"
    /\ \E sh \in Shapes : \E text \in {Render(sh)} : Call(sh, text)

ParseMalformed ==
    /\ pc = "idle"
    /\ \E text \in MalformedTexts : Call(NoShape, text)

\* let _: T = pair.try_into()
TryInto ==
    /\ pc = "idle"
    /\ \E target \in Targets, value \in Nodes :
          /\ pc' = "done"
          /\ op' = target
          /\ shape' = NoShape
          /\ input' = <<>>
          /\ tree' = value
          /\ result' = try_into(target, value)

\* The caller drops the result.
Return ==
    /\ pc = "done"
    /\ pc' = "idle"
    /\ op' = "-"
    /\ shape' = NoShape
    /\ input' = <<>>
    /\ tree' = NoNode
    /\ result' = NoResult

Next == ParseEndpoint \/ ParseMalformed \/ TryInto \/ Return

Spec == Init /\ [][Next]_vars

(***************************************************************************)
(* What the notation says, stated without the parser or the converters.    *)
(***************************************************************************)
TypeTable ==
    << <<w_string, "String">>, <<w_short, "Short">>, <<w_int, "Int">>,
       <<w_long, "Long">>, <<w_float, "Float">>, <<w_double, "Double">>,
       <<w_bool, "Bool">> >>

MethodTable ==
    << <<<<"g","e","t">>, "GET">>, <<<<"p","o","s","t">>, "POST">>,
       <<<<"p","u","t">>, "PUT">>, <<<<"d","e","l","e","t","e">>, "DELETE">> >>

\* t is the lower-case word w with some of its letters written in upper case.
IsCaseVariantOf(t, w) ==
    /\ Len(t) = Len(w)
    /\ \A i \in 1..Len(w) :
          \/ t[i] = w[i]
          \/ \E j \in 1..26 : w[i] = LowerAlpha[j] /\ t[i] = UpperAlpha[j]

KnownIn(table, t) == \E k \in 1..Len(table) : IsCaseVariantOf(t, table[k][1])

NamedIn(table, t) ==
    table[CHOOSE k \in 1..Len(table) : IsCaseVariantOf(t, table[k][1])][2]

KnownType(t) == KnownIn(TypeTable, t)

TypeNamed(t) == NamedIn(TypeTable, t)

KnownMethod(t) == KnownIn(MethodTable, t)

MethodNamed(t) == NamedIn(MethodTable, t)

AllTypesKnown(sh) ==
    /\ \A i \in 1..Len(sh.path) :
          sh.path[i].kind = "var" => KnownType(sh.path[i].type)
    /\ \A i \in 1..Len(sh.query) : KnownType(sh.query[i].type)

ExpectedPath(sh) ==
    [i \in 1..Len(sh.path) |->
        IF sh.path[i].kind = "seg" THEN PathSegment(sh.path[i].name)
        ELSE PathVariable(sh.path[i].name, TypeNamed(sh.path[i].type))]

ExpectedQuery(sh) ==
    [i \in 1..Len(sh.query) |-> Variable(sh.query[i].name, TypeNamed(sh.query[i].type))]

ExpectedOption(clause, k) == IF clause = <<>> THEN None ELSE Some(clause[k])

\* parse_endpoint has returned.
Parsed == pc = "done" /\ op = "parse_endpoint"

\* parse_endpoint has returned for a text of the notation (a well-formed text
\* whose method token is one of the four literals in some letter case).
Accepted == Parsed /\ shape.wellformed /\ KnownMethod(shape.method)

\* The Endpoint converter has returned, called directly or by parse_endpoint
\* on the root node.
Converted == pc = "done" /\ op \in {"Endpoint", "parse_endpoint"} /\ tree.rule = "endpoint"

\* The children after the query-params group.
TailOf(node) == SubSeq(node.children, 4, Len(node.children))

\* The node without its trailing clause.
WithoutTail(node) == Node("endpoint", node.text, SubSeq(node.children, 1, 3))

(***************************************************************************)
(* C1: for a text of the notation, parse_endpoint returns Ok with          *)
(* request_type and response_type both None when the type clause is absent *)
(* and both Some(identifier text) when it is present; in the Endpoint      *)
(* converter the nodes after the query-params group never raise an error,  *)
(* and a request_type node followed by no response_type node gives         *)
(* request_type = Some and response_type = None.  (A text one of whose     *)
(* variable types is not recognized returns no Endpoint whatever its       *)
(* clause: that case is C4's.)                                             *)
(***************************************************************************)
C1_TypeClause ==
    /\ (Accepted /\ AllTypesKnown(shape)) =>
          /\ result.tag = "Ok"
          /\ result.val.request_type = ExpectedOption(shape.clause, 1)
          /\ result.val.response_type = ExpectedOption(shape.clause, 2)
    /\ (Converted /\ Len(tree.children) >= 3) =>
          LET tl == TailOf(tree) IN
          /\ result.tag = Endpoint_try_from(WithoutTail(tree)).tag
          /\ result.tag = "Ok" =>
                /\ tl = <<>> =>
                      result.val.request_type = None /\ result.val.response_type = None
                /\ (Len(tl) >= 1 /\ tl[1].rule = "request_type") =>
                      /\ result.val.request_type = Some(tl[1].text)
                      /\ IF Len(tl) >= 2 /\ tl[2].rule = "response_type"
                         THEN result.val.response_type = Some(tl[2].text)
                         ELSE result.val.response_type = None

C1_Witness ==
    /\ Accepted
    /\ shape.clause = <<w_RQ, w_RS>>
    /\ result.tag = "Ok"
    /\ result.val.request_type = Some(w_RQ)
    /\ result.val.response_type = Some(w_RS)

(***************************************************************************)
(* C2: for a text of the notation whose variable types are recognized,     *)
(* parse_endpoint returns Ok and query_params is the sequence of           *)
(* Variable(name, type) in source order; without a "?" clause it is empty  *)
(* and the method, path, request_type and response_type are those written. *)
(***************************************************************************)
C2_QueryParams ==
    (Accepted /\ AllTypesKnown(shape)) =>
        /\ result.tag = "Ok"
        /\ result.val.query_params = ExpectedQuery(shape)
        /\ ~shape.hasQuery =>
              /\ result.val.query_params = <<>>
              /\ result.val.method = MethodNamed(shape.method)
              /\ result.val.path = ExpectedPath(shape)
              /\ result.val.request_type = ExpectedOption(shape.clause, 1)
              /\ result.val.response_type = ExpectedOption(shape.clause, 2)

C2_Witness ==
    /\ Accepted
    /\ ~shape.hasQuery
    /\ shape.clause = <<w_RQ, w_RS>>
    /\ shape.path = <<Seg(w_register), Var(w_id, w_string)>>
    /\ result.tag = "Ok"
    /\ result.val.query_params = <<>>
    /\ result.val.request_type = Some(w_RQ)

(***************************************************************************)
(* C3: the path of every Endpoint the converter returns has one element    *)
(* per child of the path group, in order: Segment(text) for a segment      *)
(* child, Variable(name, type) for a variable child.                       *)
(***************************************************************************)
C3_PathOrder ==
    /\ (Accepted /\ AllTypesKnown(shape)) =>
          result.tag = "Ok" /\ result.val.path = ExpectedPath(shape)
    /\ (Converted /\ result.tag = "Ok") =>
          LET cs == tree.children[2].children IN
          /\ Len(result.val.path) = Len(cs)
          /\ \A i \in 1..Len(cs) :
                /\ cs[i].rule \in {"segment", "variable"}
                /\ cs[i].rule = "segment" =>
                      result.val.path[i] = PathSegment(cs[i].text)
                /\ cs[i].rule = "variable" =>
                      result.val.path[i] =
                          PathVariable(cs[i].children[1].text,
                                       TypeNamed(cs[i].children[2].text))

C3_Witness ==
    /\ Accepted
    /\ shape.path = <<Var(w_n, <<"I","n","t">>), Seg(w_x)>>
    /\ result.tag = "Ok"
    /\ result.val.path = <<PathVariable(w_n, "Int"), PathSegment(w_x)>>

(***************************************************************************)
(* C4: when a path variable or query parameter does not convert because    *)
(* its type is not one of the seven names, parse_endpoint returns          *)
(* Err(UnsupportType) and does not panic.                                  *)
(***************************************************************************)
C4_UnsupportedTypeReturned ==
    (Accepted /\ ~AllTypesKnown(shape)) => result = Err(UnsupportType)

(***************************************************************************)
(* C5: on a variable_type node the VariableType converter returns the      *)
(* value named by the text when the text is one of the seven names in any  *)
(* letter case, and Err(UnsupportType) for every other text.               *)
(***************************************************************************)
C5_VariableTypeMatching ==
    (pc = "done" /\ op = "VariableType" /\ tree.rule = "variable_type") =>
        /\ \A k \in 1..Len(TypeTable) :
              IsCaseVariantOf(tree.text, TypeTable[k][1]) => result = Ok(TypeTable[k][2])
        /\ ~KnownType(tree.text) => result = Err(UnsupportType)

C5_Witness ==
    /\ pc = "done"
    /\ op = "VariableType"
    /\ tree = Leaf("variable_type", <<"d","O","u","B","l","E">>)
    /\ result = Ok("Double")

(***************************************************************************)
(* C6: a method token that is GET, POST, PUT or DELETE in any letter case  *)
(* is parsed and gives that method; any other method token gives           *)
(* Err(PestError); parse_endpoint never reaches panic!("Impossible").      *)
(***************************************************************************)
C6_Methods ==
    /\ (Parsed /\ shape.wellformed) =>
          /\ KnownMethod(shape.method) =>
                /\ tree.rule = "endpoint"
                /\ result # Err(PestError)
                /\ AllTypesKnown(shape) => result.tag = "Ok"
                /\ result.tag = "Ok" => result.val.method = MethodNamed(shape.method)
          /\ ~KnownMethod(shape.method) => result = Err(PestError)
    /\ Parsed => result # Panic("Impossible")

C6_Witness ==
    /\ Parsed
    /\ shape.method = <<"d","E","l","e","T","e">>
    /\ result.tag = "Ok"
    /\ result.val.method = "DELETE"

ExpectedRules(target) ==
    CASE target = "Endpoint" -> {"endpoint"}
      [] target = "Method" -> {"method"}
      [] target = "VariableType" -> {"variable_type"}
      [] target = "Variable" -> {"variable"}
      [] target = "Path" -> {"segment", "variable"}
      [] target = "RequestType" -> {"request_type"}
      [] target = "ResponseType" -> {"response_type"}

C9_TagGuard ==
    (pc = "done" /\ op \in Targets /\ tree.rule \notin ExpectedRules(op)) =>
        result = Err(UnexpectRule)

C9_Witness ==
    /\ pc = "done"
    /\ op = "ResponseType"
    /\ tree.rule = "endpoint"
    /\ Len(tree.children) = 5
    /\ result = Err(UnexpectRule)

(***************************************************************************)
(* C10: on a variable node with a name child and a type child, the         *)
(* Variable converter returns Variable(name text, type) or the type        *)
(* child's conversion error, and the Path converter returns                *)
(* Path::Variable with the same name and type, or the same error.          *)
(***************************************************************************)
ExpectedVariable(node) ==
    LET t == node.children[2] IN
    IF t.rule # "variable_type" THEN Err(UnexpectRule)
    ELSE IF KnownType(t.text)
         THEN Ok(Variable(node.children[1].text, TypeNamed(t.text)))
         ELSE Err(UnsupportType)

C10_VariableAndPathAgree ==
    (pc = "done" /\ tree.rule = "variable" /\ Len(tree.children) = 2) =>
        LET e == ExpectedVariable(tree) IN
        /\ op = "Variable" => result = e
        /\ op = "Path" =>
              IF e.tag = "Ok"
              THEN result = Ok(PathVariable(e.val.name, e.val.type))
              ELSE result = e

C10_Witness ==
    /\ pc = "done"
    /\ op = "Path"
    /\ tree = VariableNode(<<"N","a","m","e">>, Leaf("variable_type", <<"B","o","o","L">>))
    /\ result = Ok(PathVariable(<<"N","a","m","e">>, "Bool"))

=============================================================================
